---------------------------- MODULE Spec2Model ----------------------------
(***************************************************************************)
(* A model of fiction_scraper/spider.py: the Spider base class, its crawl  *)
(* pipeline (parse, filter chain, metadata projection, assembly,           *)
(* serialization) and fetch.  One Spider instance is modelled; crawl may   *)
(* be called on it again after a previous call returned or raised.         *)
(***************************************************************************)
EXTENDS Naturals, Sequences, FiniteSets

(***************************************************************************)
(* Bounds of the model.                                                    *)
(***************************************************************************)
\* longest filter list configured on the Spider class
MaxFilters == 3
\* most elements one parse yields
MaxElements == 1

(***************************************************************************)
(* URLs.  A reference is a record; it is absolute when it has a scheme.    *)
(***************************************************************************)
Url(scheme, host, rooted, path) ==
    [scheme |-> scheme, host |-> host, rooted |-> rooted, path |-> path]

NoHref == Url("", "", FALSE, <<>>)

IsAbsolute(u) == u.scheme # ""

\* the url argument of crawl, which parse hands to fetch
StartUrl == Url("http", "fic.example", TRUE, <<"s", "1">>)

\* "https://example.com/story/1"
ExampleStory1 == Url("https", "example.com", TRUE, <<"story", "1">>)

\* Where a GET of url can end: at url itself, or, after any number of
\* redirects, at the story's canonical address.
FinalUrls(url) == {url, ExampleStory1}

\* "/story/2"
RootedLink == Url("", "", TRUE, <<"story", "2">>)
\* "2"
RelativeLink == Url("", "", FALSE, <<"2">>)
\* "https://other.example.net/x"
AbsoluteLink == Url("https", "other.example.net", TRUE, <<"x">>)

\* The link lists of the pages a site may serve (pages without a <base href>
\* element of their own).
Pages == {<<RootedLink>>, <<RootedLink, RelativeLink, AbsoluteLink>>}

\* Resolution of a reference against a base URL (RFC 3986 section 5.2,
\* without dot segments), as lxml's make_links_absolute does with urljoin.
UrlJoin(base, ref) ==
    IF ref.scheme # "" THEN ref
    ELSE IF ref.host # "" THEN [ref EXCEPT !.scheme = base.scheme]
    ELSE IF ref.rooted THEN Url(base.scheme, base.host, TRUE, ref.path)
    ELSE IF ref.path = <<>> THEN base
    ELSE Url(base.scheme, base.host, base.rooted,
             SubSeq(base.path, 1, Len(base.path) - 1) \o ref.path)


(***************************************************************************)
(* fetch: GET the URL following redirects, parse the body with the final   *)
(* response URL as base_url, make every link absolute.                     *)
(***************************************************************************)
NoDocument == [base_url |-> NoHref, links |-> <<>>]

\* r = self._session.get(url): r.url is where the redirects ended, r.content
\* the page served there
NoResponse == [url |-> NoHref, content |-> <<>>]
Get(final, page) == [url |-> final, content |-> page]

\* Variant of MakeLinksAbsolute: the links are left as the page has them.
LinksLeftRelative(base_url, links) == links

\* doc.make_links_absolute(): every link resolved against the base URL
MakeLinksAbsolute(base_url, links) ==
    [i \in 1..Len(links) |-> UrlJoin(base_url, links[i])]

\* doc = document_fromstring(r.content, base_url=r.url)
\* doc.make_links_absolute()
Fetch(r) ==
    [base_url |-> r.url, links |-> MakeLinksAbsolute(r.url, r.content)]

(***************************************************************************)
(* Body nodes.  A node is an element with a tag and, for links, an href.   *)
(***************************************************************************)
Node(tag, href) == [tag |-> tag, href |-> href]

Paragraph == Node("p", NoHref)
\* <meta http-equiv="Content-Type" content="text/html; charset=UTF-8">
MetaContentType == Node("meta http-equiv=Content-Type", NoHref)
\* the element a marking filter appends
Marker == Node("hr", NoHref)

\* the elements a parse can take from a fetched document
LinkNodes(document) ==
    {Node("a", document.links[i]) : i \in 1..Len(document.links)}

(***************************************************************************)
(* The metadata dict: an insertion-ordered mapping, a sequence of entries  *)
(* with distinct keys.                                                     *)
(***************************************************************************)
MetadataKeys == {"title", "author"}
MetadataValues == {"A Story"}

Keys(d) == {d[i].key : i \in 1..Len(d)}

\* d[k] = v: a present key keeps its position, a new key goes last
DictSet(d, k, v) ==
    IF k \in Keys(d)
    THEN [i \in 1..Len(d) |-> IF d[i].key = k THEN [key |-> k, value |-> v] ELSE d[i]]
    ELSE Append(d, [key |-> k, value |-> v])

(***************************************************************************)
(* Head elements and _generate_meadata_elements.                           *)
(***************************************************************************)
Element(tag, charset, name, content, text) ==
    [tag |-> tag, charset |-> charset, name |-> name, content |-> content, text |-> text]

\* E.META(charset="UTF-8")
CharsetElement == Element("meta", "UTF-8", "", "", "")

RECURSIVE MetadataItems(_)
MetadataItems(d) ==
    IF d = <<>> THEN <<>>
    ELSE LET name == Head(d).key
             content == Head(d).value
         IN  <<IF name = "title"
               THEN Element("title", "", "", "", content)
               ELSE Element("meta", "", name, content, "")>>
             \o MetadataItems(Tail(d))

\* Variant of GenerateMeadataElements: no special case for the title key.
RECURSIVE GenericItems(_)
GenericItems(d) ==
    IF d = <<>> THEN <<>>
    ELSE <<Element("meta", "", Head(d).key, Head(d).value, "")>> \o GenericItems(Tail(d))

TitleAsGenericMeta(d) == <<CharsetElement>> \o GenericItems(d)

GenerateMeadataElements(d) == <<CharsetElement>> \o MetadataItems(d)

(***************************************************************************)
(* Filters: callables over the body, which they change in place.           *)
(***************************************************************************)
FilterKinds == {"append_marker", "drop_last", "raises"}

ApplyFilter(f, b) ==
    IF f = "append_marker" THEN Append(b, Marker)
    ELSE IF f = "drop_last" /\ b # <<>> THEN SubSeq(b, 1, Len(b) - 1)
    ELSE b

FilterChains == UNION {[1..n -> FilterKinds] : n \in 0..MaxFilters}

(***************************************************************************)
(* Serialization.  A serialized document is a sequence of tokens.          *)
(***************************************************************************)
Token(kind, element, node) == [kind |-> kind, element |-> element, node |-> node]

Mark(kind) == Token(kind, CharsetElement, Paragraph)

NoDoc == [head |-> <<>>, body |-> <<>>]

\* pretty-printed HTML with doctype '<!doctype html>'
Render(d) ==
    <<Mark("<!doctype html>"), Mark("<html>"), Mark("<head>")>>
    \o [i \in 1..Len(d.head) |-> Token("element", d.head[i], Paragraph)]
    \o <<Mark("</head>"), Mark("<body>")>>
    \o [i \in 1..Len(d.body) |-> Token("node", CharsetElement, d.body[i])]
    \o <<Mark("</body>"), Mark("</html>")>>

\* doc.getroottree().write(output_file, encoding='UTF-8', method='html', ...)
Written(d) == Render(d)

\* The serializer hands the text to output_file as its buffer fills, not in
\* one write: here in two pieces, up to </head> and the rest.
FirstPiece(d) == SubSeq(Written(d), 1, 4 + Len(d.head))

\* lxml.html.tostring(doc, encoding='unicode', ...): with method 'html' and
\* include_meta_content_type left False it removes every
\* <meta http-equiv="Content-Type" ...> tag from the serialized text.
IsMetaContentType(t) == t.kind = "node" /\ t.node = MetaContentType

tostring(d) == SelectSeq(Render(d), LAMBDA t : ~IsMetaContentType(t))

(***************************************************************************)
(* The arguments and results of crawl.                                     *)
(***************************************************************************)
\* output_file=None, the default
None == [given |-> FALSE, truthy |-> FALSE]
\* a file name or file-like object that tests true
OutputFile == [given |-> TRUE, truthy |-> TRUE]
\* a supplied sink that tests false: '' or a file-like object whose
\* __bool__ or __len__ makes it falsy
FalsyOutputFile == [given |-> TRUE, truthy |-> FALSE]

OutputFiles == {None, OutputFile, FalsyOutputFile}

NoResult == [kind |-> "nothing", content |-> <<>>]
\* tostring's value, the serialized document
StringResult(content) == [kind |-> "string", content |-> content]
\* the value of _ElementTree.write, which holds no content
WriteResult == [kind |-> "write", content |-> <<>>]

\* What the caller of crawl receives when a step raises.  crawl holds no
\* try/except: the collaborator's exception passes through as it is.
NoException == [exc |-> "", stage |-> ""]

\* Variant of Propagate: the exception is caught and dropped.
Swallowed(e) == NoException

Propagate(e) == [exc |-> e, stage |-> ""]

VARIABLES
    pc,           \* the stage crawl is at
    metadata,     \* self.metadata
    filters,      \* self.filters
    output_file,  \* crawl's output_file argument
    fetched,      \* inside parse: the document its last fetch returned
    elements,     \* what the parse generator has yielded
    body,         \* crawl's body
    fi,           \* position of the for loop in self.filters
    head,         \* crawl's head
    doc,          \* crawl's doc
    sink,         \* what this crawl has written to output_file
    result,       \* what crawl returned
    raised,       \* what crawl raised
    trace,        \* history: each filter invocation and the body it was given
    written,      \* history: the keys this crawl's parse has written
    thrown,       \* history: the exception a collaborator raised
    stale,        \* history: crawl found entries of an earlier crawl in metadata
    response      \* history: inside parse, the response the last fetch got

vars == <<pc, metadata, filters, output_file, fetched, elements, body, fi,
          head, doc, sink, result, raised, trace, written, thrown, stale, response>>

Stages == {"idle", "parse", "filter", "metadata", "assembly", "serialize", "serialized"}

Failed == raised # NoException
Running == pc \notin {"idle", "serialized"} /\ ~Failed

\* __init__
Init ==
    /\ pc = "idle"
    /\ metadata = <<>>
    /\ filters \in FilterChains
    /\ output_file = None
    /\ fetched = NoDocument
    /\ elements = <<>>
    /\ body = <<>>
    /\ fi = 1
    /\ head = <<>>
    /\ doc = NoDoc
    /\ sink = <<>>
    /\ result = NoResult
    /\ raised = NoException
    /\ trace = <<>>
    /\ written = {}
    /\ thrown = ""
    /\ stale = FALSE
    /\ response = NoResponse

\* the stage after the for loop has reached position i
AfterFilter(i) == IF i > Len(filters) THEN "metadata" ELSE "filter"

\* A step of crawl raises e: crawl ends there and the caller receives it.
Raise(e) ==
    /\ thrown' = e
    /\ raised' = Propagate(e)

\* What a call of crawl sets apart from self.metadata.
Enter ==
    /\ ~Running
    /\ \E f \in OutputFiles : output_file' = f
    /\ pc' = "parse"
    /\ fetched' = NoDocument
    /\ elements' = <<>>
    /\ body' = <<>>
    /\ fi' = 1
    /\ head' = <<>>
    /\ doc' = NoDoc
    /\ result' = NoResult
    /\ raised' = NoException
    /\ trace' = <<>>
    /\ written' = {}
    /\ thrown' = ""
    /\ stale' = (metadata # <<>>)
    /\ response' = NoResponse
    /\ UNCHANGED filters

\* Variant of Crawl: metadata is not cleared.
CrawlKeepingMetadata ==
    /\ Enter
    /\ sink' = <<>>
    /\ UNCHANGED metadata

\* Variant of Crawl: output_file is opened and the doctype written to it
\* before parsing.
CrawlWritingDoctypeFirst ==
    /\ Enter
    /\ metadata' = <<>>
    /\ sink' = IF output_file'.truthy THEN <<Mark("<!doctype html>")>> ELSE <<>>

\* crawl(url, output_file) is called; its first statement clears metadata.
Crawl ==
    /\ Enter
    /\ metadata' = <<>>
    /\ sink' = <<>>

\* parse calls self.fetch(url)
ParseFetch ==
    /\ Running /\ pc = "parse"
    /\ \E final \in FinalUrls(StartUrl), page \in Pages :
          /\ response' = Get(final, page)
          /\ fetched' = Fetch(response')
    /\ UNCHANGED <<pc, metadata, filters, output_file, elements, body, fi, head,
                   doc, sink, result, raised, trace, written, thrown, stale>>

\* parse writes self.metadata[k] = v
ParseWriteMetadata ==
    /\ Running /\ pc = "parse"
    /\ \E k \in MetadataKeys, v \in MetadataValues :
          /\ metadata' = DictSet(metadata, k, v)
          /\ written' = written \cup {k}
    /\ UNCHANGED <<pc, filters, output_file, fetched, elements, body, fi, head,
                   doc, sink, result, raised, trace, thrown, stale, response>>

\* parse yields an element
ParseYield ==
    /\ Running /\ pc = "parse"
    /\ Len(elements) < MaxElements
    /\ \E e \in {Paragraph, MetaContentType} \cup LinkNodes(fetched) :
          elements' = Append(elements, e)
    /\ UNCHANGED <<pc, metadata, filters, output_file, fetched, body, fi, head,
                   doc, sink, result, raised, trace, written, thrown, stale, response>>

\* parse is exhausted: body = E.BODY(*self.parse(url))
ParseReturn ==
    /\ Running /\ pc = "parse"
    /\ body' = elements
    /\ fi' = 1
    /\ pc' = AfterFilter(1)
    /\ fetched' = NoDocument
    /\ response' = NoResponse
    /\ UNCHANGED <<metadata, filters, output_file, elements, head,
                   doc, sink, result, raised, trace, written, thrown, stale>>

\* parse (or a fetch inside it) raises
ParseRaises ==
    /\ Running /\ pc = "parse"
    /\ Raise("ParseError")
    /\ fetched' = NoDocument
    /\ response' = NoResponse
    /\ UNCHANGED <<pc, metadata, filters, output_file, elements, body, fi,
                   head, doc, sink, result, trace, written, stale>>

\* Variant of RunFilter: the filter is given a copy of the body.
RunFilterOnCopy ==
    /\ Running /\ pc = "filter"
    /\ filters[fi] # "raises"
    /\ trace' = Append(trace, [pos |-> fi, seen |-> body])
    /\ fi' = fi + 1
    /\ pc' = AfterFilter(fi + 1)
    /\ UNCHANGED <<metadata, filters, output_file, fetched, elements, body, head,
                   doc, sink, result, raised, written, thrown, stale, response>>

\* one iteration of `for f in self.filters: f(body)` with f returning
RunFilter ==
    /\ Running /\ pc = "filter"
    /\ filters[fi] # "raises"
    /\ trace' = Append(trace, [pos |-> fi, seen |-> body])
    /\ body' = ApplyFilter(filters[fi], body)
    /\ fi' = fi + 1
    /\ pc' = AfterFilter(fi + 1)
    /\ UNCHANGED <<metadata, filters, output_file, fetched, elements, head,
                   doc, sink, result, raised, written, thrown, stale, response>>

\* Variant of FilterRaises: the error is logged and the loop goes on.
FilterRaisesLoopGoesOn ==
    /\ Running /\ pc = "filter"
    /\ filters[fi] = "raises"
    /\ trace' = Append(trace, [pos |-> fi, seen |-> body])
    /\ fi' = fi + 1
    /\ pc' = AfterFilter(fi + 1)
    /\ UNCHANGED <<metadata, filters, output_file, fetched, elements, body, head,
                   doc, sink, result, raised, written, thrown, stale, response>>

\* one iteration of the for loop with f raising
FilterRaises ==
    /\ Running /\ pc = "filter"
    /\ filters[fi] = "raises"
    /\ trace' = Append(trace, [pos |-> fi, seen |-> body])
    /\ Raise("FilterError")
    /\ UNCHANGED <<pc, metadata, filters, output_file, fetched, elements, body, fi,
                   head, doc, sink, result, written, stale, response>>

\* Variant of GenerateHead: the head is built as soon as parse has returned,
\* before the filters run.
GenerateHeadBeforeFilters ==
    /\ Running /\ pc \in {"filter", "metadata"}
    /\ head = <<>>
    /\ head' = GenerateMeadataElements(metadata)
    /\ pc' = IF pc = "metadata" THEN "assembly" ELSE pc
    /\ UNCHANGED <<metadata, filters, output_file, fetched, elements, body, fi,
                   doc, sink, result, raised, trace, written, thrown, stale, response>>

\* head = E.HEAD(*self._generate_meadata_elements())
GenerateHead ==
    /\ Running /\ pc = "metadata"
    /\ head' = GenerateMeadataElements(metadata)
    /\ pc' = "assembly"
    /\ UNCHANGED <<metadata, filters, output_file, fetched, elements, body, fi,
                   doc, sink, result, raised, trace, written, thrown, stale, response>>

\* doc = E.HTML(head, body)
Assemble ==
    /\ Running /\ pc = "assembly"
    /\ doc' = [head |-> head, body |-> body]
    /\ pc' = "serialize"
    /\ UNCHANGED <<metadata, filters, output_file, fetched, elements, body, fi,
                   head, sink, result, raised, trace, written, thrown, stale, response>>

\* `if output_file:` is false: return tostring(doc, ...)
ReturnString ==
    /\ Running /\ pc = "serialize"
    /\ ~output_file.truthy
    /\ result' = StringResult(tostring(doc))
    /\ pc' = "serialized"
    /\ UNCHANGED <<metadata, filters, output_file, fetched, elements, body, fi,
                   head, doc, sink, raised, trace, written, thrown, stale, response>>

\* `if output_file:` is true: write streams the document into output_file,
\* a piece at a time
WritePiece ==
    /\ Running /\ pc = "serialize"
    /\ output_file.truthy
    /\ sink # Written(doc)
    /\ sink' = IF sink = <<>> THEN FirstPiece(doc) ELSE Written(doc)
    /\ UNCHANGED <<pc, metadata, filters, output_file, fetched, elements, body, fi,
                   head, doc, result, raised, trace, written, thrown, stale, response>>

\* the write is complete: return its value
ReturnWrite ==
    /\ Running /\ pc = "serialize"
    /\ output_file.truthy
    /\ sink = Written(doc)
    /\ result' = WriteResult
    /\ pc' = "serialized"
    /\ UNCHANGED <<metadata, filters, output_file, fetched, elements, body, fi,
                   head, doc, sink, raised, trace, written, thrown, stale, response>>

\* output_file fails under the write (cannot be opened, disk full, its
\* write method raises)
WriteRaises ==
    /\ Running /\ pc = "serialize"
    /\ output_file.truthy
    /\ sink # Written(doc)
    /\ Raise("IOError")
    /\ UNCHANGED <<pc, metadata, filters, output_file, fetched, elements, body, fi,
                   head, doc, sink, result, trace, written, stale, response>>

Next ==
    \/ Crawl
    \/ ParseFetch
    \/ ParseWriteMetadata
    \/ ParseYield
    \/ ParseReturn
    \/ ParseRaises
    \/ RunFilter
    \/ FilterRaises
    \/ GenerateHead
    \/ Assemble
    \/ ReturnString
    \/ WritePiece
    \/ ReturnWrite
    \/ WriteRaises

Spec == Init /\ [][Next]_vars

(***************************************************************************)
(* Properties.                                                             *)
(***************************************************************************)
\* the metadata key a head element was made from
HeadKey(e) == IF e.tag = "title" THEN "title" ELSE e.name

\* the parsed body after the first n filters of the list
RECURSIVE Filtered(_)
Filtered(n) == IF n = 0 THEN elements ELSE ApplyFilter(filters[n], Filtered(n - 1))

\* C1: every crawl starts from an empty metadata mapping, however the
\* previous crawl ended: at every point the mapping holds exactly the keys
\* this crawl's parse has written, and the head holds the charset element
\* and one element per key written by this crawl's parse (so only the
\* charset element when it wrote none).
MetadataIsolation ==
    /\ Keys(metadata) = written
    /\ head # <<>> =>
          /\ head[1] = CharsetElement
          /\ Len(head) = 1 + Cardinality(written)
          /\ \A i \in 2..Len(head) : HeadKey(head[i]) \in written

\* C1 witness: a crawl that found an earlier crawl's entries in metadata,
\* whose parse wrote nothing, has built a head of the charset element only.
MetadataIsolationWitness ==
    /\ stale
    /\ written = {}
    /\ head = <<CharsetElement>>

\* C2: the k-th invocation of the loop is of the k-th filter and is given
\* the parsed body as filters 1..k-1 left it; the assembled document holds
\* the body as all the filters left it, each invoked once.
FilterOrder ==
    /\ \A k \in 1..Len(trace) :
          /\ trace[k].pos = k
          /\ trace[k].seen = Filtered(k - 1)
    /\ doc # NoDoc =>
          /\ Len(trace) = Len(filters)
          /\ doc.body = Filtered(Len(filters))

\* C2 witness: a document assembled after three filters, each of which saw
\* a body different from the one its predecessor saw.
FilterOrderWitness ==
    /\ doc # NoDoc
    /\ Len(trace) = 3
    /\ trace[2].seen # trace[1].seen
    /\ trace[3].seen # trace[2].seen
    /\ doc.body # elements

\* C3: an invocation of a raising filter is the last invocation of the
\* crawl, and the crawl has raised, without a result.
FailFast ==
    \A k \in 1..Len(trace) :
        filters[trace[k].pos] = "raises" =>
            /\ k = Len(trace)
            /\ Failed
            /\ result = NoResult
            /\ doc = NoDoc

\* C3 witness: the chain [f1, f_raises, f3] has raised at its second
\* filter, after two invocations.
FailFastWitness ==
    /\ Len(filters) = 3
    /\ filters[1] # "raises" /\ filters[2] = "raises" /\ filters[3] # "raises"
    /\ Failed
    /\ Len(trace) = 2

\* C4: the head is the charset element followed by one element per
\* metadata entry, in insertion order: a title element holding the value
\* for the key "title", a meta element with name = key and content = value
\* for any other key.
HeadProjection ==
    head # <<>> =>
        /\ Len(head) = 1 + Len(metadata)
        /\ head[1] = CharsetElement
        /\ \A i \in 1..Len(metadata) :
              head[i + 1] = IF metadata[i].key = "title"
                            THEN Element("title", "", "", "", metadata[i].value)
                            ELSE Element("meta", "", metadata[i].key, metadata[i].value, "")

\* C4 witness: a head built from a mapping whose second entry is the title.
HeadProjectionWitness ==
    /\ Len(head) = 3
    /\ head[2].tag = "meta" /\ head[2].name = "author"
    /\ head[3].tag = "title"

\* C5: the string crawl returns without output_file is the content crawl
\* writes to output_file, for every document crawl assembles.
DualOutputEquivalence ==
    doc # NoDoc => tostring(doc) = Written(doc)

\* C6: crawl returns the serialized document as a string exactly when no
\* output_file was supplied; with any output_file supplied it writes the
\* document there and returns the value of the write.
StringIffNoSink ==
    pc = "serialized" =>
        /\ (result.kind = "string") <=> ~output_file.given
        /\ output_file.given => (sink = Written(doc) /\ result = WriteResult)

\* C7: a crawl in which a step raised has returned nothing and has written
\* nothing to output_file.
AllOrNothing ==
    thrown # "" => (result = NoResult /\ sink = <<>>)

\* C7, amended: a crawl in which a step raised has returned nothing, and
\* has written nothing to output_file unless the step that raised is the
\* write to output_file itself; whatever is returned or written comes from
\* a document that is filtered through the whole list and carries the head
\* of the final metadata.
NothingBeforeSerialization ==
    /\ thrown # "" => result = NoResult
    /\ (thrown # "" /\ pc # "serialize") => sink = <<>>
    /\ (sink # <<>> \/ result # NoResult) =>
          /\ pc \in {"serialize", "serialized"}
          /\ doc = [head |-> GenerateMeadataElements(metadata),
                    body |-> Filtered(Len(filters))]
          /\ Len(trace) = Len(filters)
    /\ result # NoResult => (pc = "serialized" /\ ~Failed)

\* C7 witness: a crawl given an output_file has raised in the filter stage
\* and left output_file untouched.
NothingBeforeSerializationWitness ==
    /\ Failed
    /\ pc = "filter"
    /\ output_file.truthy
    /\ sink = <<>>

\* C8: the error the caller receives names the stage that failed.
ErrorNamesStage ==
    Failed => raised.stage = pc

\* C8, amended: when a step raises, the caller of crawl receives that
\* step's own exception, unwrapped and without a stage name, and crawl
\* returns nothing.
ErrorPropagatesUnmodified ==
    /\ thrown # "" => (raised = [exc |-> thrown, stage |-> ""] /\ result = NoResult)
    /\ Failed => raised.exc = thrown

\* C8 witness: the write to output_file has raised and the caller has the
\* IOError.
ErrorPropagatesUnmodifiedWitness ==
    /\ pc = "serialize"
    /\ thrown = "IOError"
    /\ raised.exc = "IOError"

\* what "/story/2" is on a page at "https://example.com/story/1"
ExampleStory2 == Url("https", "example.com", TRUE, <<"story", "2">>)

StageSuccession ==
    {<<"parse", "filter">>, <<"parse", "metadata">>, <<"filter", "metadata">>,
     <<"metadata", "assembly">>, <<"assembly", "serialize">>,
     <<"serialize", "serialized">>}

\* C10: the stages of a crawl follow one another in the order parse,
\* filter, metadata, assembly, serialize; metadata is written and elements
\* are yielded only in the parse stage; filters are invoked only in the
\* filter stage; the head is built in the metadata stage, after every
\* filter has returned; from then on the body does not change.
StageOrderStep ==
    \/ pc' = "parse" /\ ~Running
    \/ /\ pc' # pc => <<pc, pc'>> \in StageSuccession
       /\ (metadata' # metadata \/ elements' # elements) => (pc = "parse" /\ pc' = "parse")
       /\ trace' # trace => pc = "filter"
       /\ head' # head => (pc = "metadata" /\ Len(trace) = Len(filters))
       /\ pc \in {"metadata", "assembly", "serialize", "serialized"} =>
             (body' = body /\ metadata' = metadata)

StageOrder == [][StageOrderStep]_vars

\* C10 witness: a crawl has gone through every stage, with metadata
\* written, an element yielded and three filters run.
StageOrderWitness ==
    /\ pc = "serialized"
    /\ written # {}
    /\ elements # <<>>
    /\ Len(trace) = 3

=============================================================================
